---- MODULE Spec2Model ----
(***************************************************************************)
(* Model of the pluggable product sorter of main.go: Product, the sorting  *)
(* strategies (price, sales per view, newest first, alphabetical), the     *)
(* BaseSorter that runs sort.Slice on a copy, the SorterRegistry and the   *)
(* ProductCatalog.                                                         *)
(*                                                                         *)
(* Go strings are byte sequences: Name and Created are tuples of byte      *)
(* values.  Price is kept in hundredths (12.99 is 1299); the order of two  *)
(* finite float64 prices is the order of these integers.  The float64      *)
(* quotient SalesCount / ViewsCount is kept as a fraction, with the IEEE   *)
(* results of a division by zero (NaN, +Inf, -Inf) as separate kinds.      *)
(***************************************************************************)
EXTENDS Integers, Sequences, FiniteSets, Bags, TLC

VARIABLES
    products,    \* the backing array of the caller's slice, shared with ProductCatalog.products
    initial,     \* history: the slice as it was handed to NewProductCatalog / Sort
    build,       \* which sort.Slice implementation the toolchain links
    registry,    \* SorterRegistry.sorters: name -> sorter
    registered,  \* history: the latest sorter passed to AddSortingLogic, per name
    ret,         \* what the last call returned
    pc,          \* position of the Sort driver: "start", "sorted", "resorted", or "catalog"
    sorter,      \* the sorter under test in the Sort driver
    sorted,      \* Sort(products)
    resorted     \* Sort(Sort(products))

vars == <<products, initial, build, registry, registered, ret, pc, sorter, sorted, resorted>>

----------------------------------------------------------------------------
(* Bounds of the model *)

\* Inputs of every length up to MaxLen are drawn over all the profiles.
MaxLen == 3
\* Long inputs hold LongLen products.
LongLen == 8
\* Catalogs hold up to MaxCatalog products.
MaxCatalog == 2

----------------------------------------------------------------------------
(* Sorting method names, main.go lines 10-15 *)

BY_PRICE_HIGH_TO_LOW == "Price (Low to High)"
BY_POPULARITY == "Popularity (Sales per View)"
BY_NEWSET == "Newest First"
BY_APLHABETS == "Alphabetical (Z to A)"

\* A name no sorter is ever registered under.
UnknownName == "Cheapest Shipping"

----------------------------------------------------------------------------
(* Products *)

\* The three products of main(), without their IDs.
Alabaster == [Name |-> <<65, 108, 97, 98, 97, 115, 116, 101, 114, 32, 84, 97, 98, 108, 101>>,
              Price |-> 1299,
              Created |-> <<50, 48, 49, 57, 45, 48, 49, 45, 48, 52>>,
              SalesCount |-> 32, ViewsCount |-> 730]
Zebra == [Name |-> <<90, 101, 98, 114, 97, 32, 84, 97, 98, 108, 101>>,
          Price |-> 4449,
          Created |-> <<50, 48, 49, 50, 45, 48, 49, 45, 48, 52>>,
          SalesCount |-> 301, ViewsCount |-> 3279]
Coffee == [Name |-> <<67, 111, 102, 102, 101, 101, 32, 84, 97, 98, 108, 101>>,
           Price |-> 1000,
           Created |-> <<50, 48, 49, 52, 45, 48, 53, 45, 50, 56>>,
           SalesCount |-> 1048, ViewsCount |-> 20123]

\* Further Product values a caller can build: "Desk", created "2019-13-01",
\* never viewed and never sold; "Easel", created "0000-12-31", sold but never
\* viewed; "Futon", created "n/a", viewed but never sold.
Desk == [Name |-> <<68, 101, 115, 107>>,
         Price |-> 1299,
         Created |-> <<50, 48, 49, 57, 45, 49, 51, 45, 48, 49>>,
         SalesCount |-> 0, ViewsCount |-> 0]
Easel == [Name |-> <<69, 97, 115, 101, 108>>,
          Price |-> 1000,
          Created |-> <<48, 48, 48, 48, 45, 49, 50, 45, 51, 49>>,
          SalesCount |-> 5, ViewsCount |-> 0]
Futon == [Name |-> <<70, 117, 116, 111, 110>>,
          Price |-> 4449,
          Created |-> <<110, 47, 97>>,
          SalesCount |-> 0, ViewsCount |-> 10]

Profiles == {Alabaster, Zebra, Coffee, Desk, Easel, Futon}

\* A Product: a profile with its ID.
Product(id, profile) ==
    [ID |-> id, Name |-> profile.Name, Price |-> profile.Price,
     Created |-> profile.Created, SalesCount |-> profile.SalesCount,
     ViewsCount |-> profile.ViewsCount]

\* A slice of products with the IDs 1, 2, ... in order, as main() numbers them.
Slice(profiles) == [i \in 1..Len(profiles) |-> Product(i, profiles[i])]

\* The products of main().
SampleProducts == Slice(<<Alabaster, Zebra, Coffee>>)

SeqsUpTo(S, n) == UNION {[1..k -> S] : k \in 0..n}

\* Long inputs: LongLen products that are Alabaster or Zebra, with at most one
\* of them replaced by Desk.
LongInputs ==
    LET plain == [1..LongLen -> {Alabaster, Zebra}]
    IN  plain \cup {[ps EXCEPT ![k] = Desk] : ps \in plain, k \in 1..LongLen}

SortInputs == {Slice(ps) : ps \in SeqsUpTo(Profiles, MaxLen) \cup LongInputs}

CatalogInputs ==
    {Slice(ps) : ps \in SeqsUpTo(Profiles, MaxCatalog)} \cup {SampleProducts}

----------------------------------------------------------------------------
(* time.Parse("2006-01-02", value) and Time.After *)

isDigit(s, i) == i <= Len(s) /\ s[i] >= 48 /\ s[i] <= 57

digit(s, i) == s[i] - 48

isLeap(year) == year % 4 = 0 /\ (year % 100 # 0 \/ year % 400 = 0)

daysIn(month, year) ==
    IF month = 2 THEN (IF isLeap(year) THEN 29 ELSE 28)
    ELSE IF month \in {4, 6, 9, 11} THEN 30 ELSE 31

\* The zero time.Time: January 1, year 1.
ZeroTime == [year |-> 1, month |-> 1, day |-> 1]

\* The layout is a four-digit year, "-", a two-digit month, "-", a two-digit
\* day, and nothing after it; the month is 1..12 and the day exists in the
\* month.  On any error Parse returns the zero Time and the error.
Parse(value) ==
    LET wellFormed ==
            /\ Len(value) = 10
            /\ \A i \in {1, 2, 3, 4, 6, 7, 9, 10} : isDigit(value, i)
            /\ value[5] = 45
            /\ value[8] = 45
        year == digit(value, 1) * 1000 + digit(value, 2) * 100
                + digit(value, 3) * 10 + digit(value, 4)
        month == digit(value, 6) * 10 + digit(value, 7)
        day == digit(value, 9) * 10 + digit(value, 10)
    IN  IF /\ wellFormed
           /\ month >= 1 /\ month <= 12
           /\ day >= 1 /\ day <= daysIn(month, year)
        THEN [time |-> [year |-> year, month |-> month, day |-> day], err |-> FALSE]
        ELSE [time |-> ZeroTime, err |-> TRUE]

\* t.After(u), for two midnights in UTC.
After(t, u) ==
    \/ t.year > u.year
    \/ t.year = u.year /\ t.month > u.month
    \/ t.year = u.year /\ t.month = u.month /\ t.day > u.day

----------------------------------------------------------------------------
(* float64(SalesCount) / float64(ViewsCount) and the float64 > *)

Ratio(p) ==
    IF p.ViewsCount # 0
    THEN [kind |-> "finite",
          num |-> IF p.ViewsCount > 0 THEN p.SalesCount ELSE 0 - p.SalesCount,
          den |-> IF p.ViewsCount > 0 THEN p.ViewsCount ELSE 0 - p.ViewsCount]
    ELSE IF p.SalesCount = 0 THEN [kind |-> "NaN", num |-> 0, den |-> 0]
    ELSE IF p.SalesCount > 0 THEN [kind |-> "+Inf", num |-> 1, den |-> 0]
    ELSE [kind |-> "-Inf", num |-> -1, den |-> 0]

\* r1 > r2 on float64: false whenever either side is NaN.
FloatGreater(r1, r2) ==
    IF r1.kind = "NaN" \/ r2.kind = "NaN" THEN FALSE
    ELSE IF r1.kind = "+Inf" THEN r2.kind # "+Inf"
    ELSE IF r1.kind = "-Inf" THEN FALSE
    ELSE IF r2.kind = "+Inf" THEN FALSE
    ELSE IF r2.kind = "-Inf" THEN TRUE
    ELSE r1.num * r2.den > r2.num * r1.den

\* s < t on Go strings: bytewise lexicographic.
RECURSIVE StringLess(_, _)
StringLess(s, t) ==
    IF t = <<>> THEN FALSE
    ELSE IF s = <<>> THEN TRUE
    ELSE IF s[1] # t[1] THEN s[1] < t[1]
    ELSE StringLess(Tail(s), Tail(t))

----------------------------------------------------------------------------
(* The sortLogic of each sorter *)

PriceLogic(p1, p2) == p1.Price < p2.Price

SalesPerViewLogic(p1, p2) == FloatGreater(Ratio(p1), Ratio(p2))

NewestFirstLogic(p1, p2) == After(Parse(p1.Created).time, Parse(p2.Created).time)

AlphabeticalLogic(p1, p2) == StringLess(p2.Name, p1.Name)

\* s.sortLogic(p1, p2): a sorter carries the name of its function.
sortLogic(s, p1, p2) ==
    CASE s.sortLogic = "price" -> PriceLogic(p1, p2)
      [] s.sortLogic = "salesPerView" -> SalesPerViewLogic(p1, p2)
      [] s.sortLogic = "newestFirst" -> NewestFirstLogic(p1, p2)
      [] s.sortLogic = "alphabetical" -> AlphabeticalLogic(p1, p2)

NewPriceSorter == [name |-> BY_PRICE_HIGH_TO_LOW, sortLogic |-> "price"]
NewSalesPerViewSorter == [name |-> BY_POPULARITY, sortLogic |-> "salesPerView"]
NewNewestFirstSorter == [name |-> BY_NEWSET, sortLogic |-> "newestFirst"]
\* The custom sorter main() builds.
alphabeticalSorter == [name |-> BY_APLHABETS, sortLogic |-> "alphabetical"]

BuiltinSorters == {NewPriceSorter, NewSalesPerViewSorter, NewNewestFirstSorter}

AllSorters == BuiltinSorters \cup {alphabeticalSorter}

----------------------------------------------------------------------------
(* sort.Slice(result, less), for the slices of at most 12 elements that the  *)
(* model draws.  The order of elements that compare equal is not specified   *)
(* by the library, and differs between toolchains:                           *)
(*   "pdqsort"   (Go 1.19 and later) runs an insertion sort;                 *)
(*   "quickSort" (Go 1.18 and earlier) runs one Shell-sort pass with gap 6   *)
(*               and then the insertion sort.                                *)
(* Longer slices are partitioned first in both and are outside the model.    *)

Builds == {"pdqsort", "quickSort"}

\* Mutant of Swap: the second assignment is lost.
SwapOverwrite(data, i, j) == [data EXCEPT ![i] = data[j]]

Swap(data, i, j) == [data EXCEPT ![i] = data[j], ![j] = data[i]]

\* for j := i; j > a && less(j, j-1); j-- { swap(j, j-1) }
RECURSIVE insertionInner(_, _, _)
insertionInner(s, data, j) ==
    IF j > 1 /\ sortLogic(s, data[j], data[j - 1])
    THEN insertionInner(s, Swap(data, j, j - 1), j - 1)
    ELSE data

\* Mutant of insertionOuter: the loop stops one element early.
RECURSIVE insertionOuterShort(_, _, _)
insertionOuterShort(s, data, i) ==
    IF i < Len(data)
    THEN insertionOuterShort(s, insertionInner(s, data, i), i + 1)
    ELSE data

\* for i := a + 1; i < b; i++ { ... }
RECURSIVE insertionOuter(_, _, _)
insertionOuter(s, data, i) ==
    IF i <= Len(data)
    THEN insertionOuter(s, insertionInner(s, data, i), i + 1)
    ELSE data

insertionSort(s, data) == insertionOuter(s, data, 2)

\* for i := a + 6; i < b; i++ { if less(i, i-6) { swap(i, i-6) } }
RECURSIVE shellPass(_, _, _)
shellPass(s, data, i) ==
    IF i <= Len(data)
    THEN shellPass(s, IF sortLogic(s, data[i], data[i - 6])
                      THEN Swap(data, i, i - 6) ELSE data, i + 1)
    ELSE data

sortSlice(s, data, b) ==
    IF b = "pdqsort" THEN insertionSort(s, data)
    ELSE IF Len(data) > 1 THEN insertionSort(s, shellPass(s, data, 7))
    ELSE data

----------------------------------------------------------------------------
(* BaseSorter.Sort *)

\* result := make([]Product, len(products)); copy(result, products)
copy(src) == [i \in 1..Len(src) |-> src[i]]

\* Mutant of Sort: the slice is sorted in place, without the copy.
SortInPlace(s, input, b) ==
    [input |-> sortSlice(s, input, b), result |-> sortSlice(s, input, b)]

\* The caller's slice and the returned slice after the call.
Sort(s, input, b) ==
    [input |-> input, result |-> sortSlice(s, copy(input), b)]

GetName(s) == s.name

----------------------------------------------------------------------------
(* SorterRegistry *)

\* Mutant of RegisterSorter: a name already present keeps its sorter.
RegisterSorterKeepFirst(r, s) ==
    [n \in DOMAIN r \cup {GetName(s)} |-> IF n \in DOMAIN r THEN r[n] ELSE s]

\* Mutant of RegisterSorter: the map is rebuilt around the new sorter and the
\* built-in sorters.
RegisterSorterRebuild(r, s) ==
    [n \in {GetName(s), BY_PRICE_HIGH_TO_LOW, BY_POPULARITY, BY_NEWSET} \cap
            (DOMAIN r \cup {GetName(s)}) |->
        IF n = GetName(s) THEN s ELSE r[n]]

\* r.sorters[sorter.GetName()] = sorter
RegisterSorter(r, s) ==
    [n \in DOMAIN r \cup {GetName(s)} |-> IF n = GetName(s) THEN s ELSE r[n]]

NewSorterRegistry ==
    RegisterSorter(RegisterSorter(RegisterSorter(<<>>, NewPriceSorter),
                                  NewSalesPerViewSorter),
                   NewNewestFirstSorter)

\* Mutant of GetSorter: a missing name falls back to the price sorter.
GetSorterOrDefault(r, name) ==
    IF name \in DOMAIN r THEN [sorter |-> r[name], exists |-> TRUE]
    ELSE [sorter |-> NewPriceSorter, exists |-> TRUE]

\* sorter, exists := r.sorters[name]
GetSorter(r, name) ==
    IF name \in DOMAIN r THEN [sorter |-> r[name], exists |-> TRUE]
    ELSE [sorter |-> [name |-> "", sortLogic |-> "nil"], exists |-> FALSE]

\* Every order in which ranging over a map with these keys can append them.
RECURSIVE rangeOrders(_)
rangeOrders(keys) ==
    IF keys = {} THEN {<<>>}
    ELSE UNION {{<<k>> \o rest : rest \in rangeOrders(keys \ {k})} : k \in keys}

GetAvailableSorters(r) == rangeOrders(DOMAIN r)

----------------------------------------------------------------------------
(* What a call returned *)

NoSorter == [name |-> "", sortLogic |-> "nil"]

Returned(op, name, arg, prods, isNil, err, names) ==
    [op |-> op, name |-> name, arg |-> arg, products |-> prods, isNil |-> isNil,
     err |-> err, names |-> names]

NoCall == Returned("none", "", NoSorter, <<>>, TRUE, <<>>, <<>>)

\* fmt.Errorf("sorter '%s' not found", sorterName)
Errorf(sorterName) == <<"sorter '", sorterName, "' not found">>

----------------------------------------------------------------------------
(* ProductCatalog *)

\* Sorters a caller passes to AddSortingLogic: the one of main(), another
\* under the same name, and one under the name of a built-in sorter.
CustomSorters ==
    {alphabeticalSorter,
     [name |-> BY_APLHABETS, sortLogic |-> "price"],
     [name |-> BY_PRICE_HIGH_TO_LOW, sortLogic |-> "alphabetical"]}

BuiltinNames == {GetName(s) : s \in BuiltinSorters}

LookupNames == BuiltinNames \cup {BY_APLHABETS, UnknownName}

\* NewProductCatalog(products): the slice is stored, not copied.
Init ==
    /\ products \in CatalogInputs
    /\ initial = products
    /\ build \in Builds
    /\ registry = NewSorterRegistry
    /\ registered = {}
    /\ ret = NoCall
    /\ pc = "catalog"
    /\ sorter = NoSorter
    /\ sorted = <<>>
    /\ resorted = <<>>

GetSortedProducts(sorterName) ==
    /\ pc = "catalog"
    /\ LET g == GetSorter(registry, sorterName)
           r == Sort(g.sorter, products, build)
       IN  IF ~g.exists
           THEN /\ ret' = Returned("GetSortedProducts", sorterName, NoSorter,
                                   <<>>, TRUE, Errorf(sorterName), <<>>)
                /\ UNCHANGED products
           ELSE /\ ret' = Returned("GetSortedProducts", sorterName, NoSorter,
                                   r.result, FALSE, <<>>, <<>>)
                /\ products' = r.input
    /\ UNCHANGED <<initial, build, registry, registered, pc, sorter, sorted, resorted>>

AddSortingLogic(s) ==
    /\ pc = "catalog"
    /\ registry' = RegisterSorter(registry, s)
    /\ registered' = {x \in registered : x.name # s.name} \cup {s}
    /\ ret' = Returned("AddSortingLogic", s.name, s, <<>>, TRUE, <<>>, <<>>)
    /\ UNCHANGED <<products, initial, build, pc, sorter, sorted, resorted>>

ListAvailableSorters ==
    /\ pc = "catalog"
    /\ \E names \in GetAvailableSorters(registry) :
           ret' = Returned("GetAvailableSorters", "", NoSorter, <<>>, TRUE, <<>>, names)
    /\ UNCHANGED <<products, initial, build, registry, registered, pc, sorter, sorted, resorted>>

Next ==
    \/ \E n \in LookupNames : GetSortedProducts(n)
    \/ \E s \in CustomSorters : AddSortingLogic(s)
    \/ ListAvailableSorters

Spec == Init /\ [][Next]_vars

----------------------------------------------------------------------------
(* Sort applied to a slice, and again to its own output *)

SortInit ==
    /\ products \in SortInputs
    /\ initial = products
    /\ build \in Builds
    /\ sorter \in AllSorters
    /\ pc = "start"
    /\ sorted = <<>>
    /\ resorted = <<>>
    /\ registry = NewSorterRegistry
    /\ registered = {}
    /\ ret = NoCall

SortOnce ==
    /\ pc = "start"
    /\ LET r == Sort(sorter, products, build)
       IN  /\ products' = r.input
           /\ sorted' = r.result
    /\ pc' = "sorted"
    /\ UNCHANGED <<initial, build, registry, registered, ret, sorter, resorted>>

SortAgain ==
    /\ pc = "sorted"
    /\ LET r == Sort(sorter, sorted, build)
       IN  /\ sorted' = r.input
           /\ resorted' = r.result
    /\ pc' = "resorted"
    /\ UNCHANGED <<products, initial, build, registry, registered, ret, sorter>>

SortNext == SortOnce \/ SortAgain

SortSpec == SortInit /\ [][SortNext]_vars

----------------------------------------------------------------------------
(* Helpers of the properties *)

Range(f) == {f[i] : i \in DOMAIN f}

BagOf(f) == [x \in Range(f) |-> Cardinality({i \in DOMAIN f : f[i] = x})]

IDs(f) == [i \in DOMAIN f |-> f[i].ID]

\* r1 == r2 on float64.
FloatEqual(r1, r2) ==
    /\ r1.kind # "NaN"
    /\ r2.kind # "NaN"
    /\ r1.kind = r2.kind
    /\ r1.kind = "finite" => r1.num * r2.den = r2.num * r1.den

\* The two products have the same value of the key the sorter compares.
KeyEqual(s, p, q) ==
    CASE s.sortLogic = "price" -> p.Price = q.Price
      [] s.sortLogic = "salesPerView" -> FloatEqual(Ratio(p), Ratio(q))
      [] s.sortLogic = "newestFirst" -> Parse(p.Created).time = Parse(q.Created).time
      [] s.sortLogic = "alphabetical" -> p.Name = q.Name

\* Position of the product in the slice handed to Sort (the model numbers
\* the products of an input 1, 2, ... in order).
InputIndex(p) == CHOOSE i \in DOMAIN initial : initial[i] = p

----------------------------------------------------------------------------
(* Properties of Sort, checked under SortSpec *)

\* C1: stability.  Under every built-in sorter, two products with equal
\* comparator keys appear in the output of Sort in the order they had in the
\* input.
C1_Stable ==
    (pc # "start" /\ sorter \in BuiltinSorters) =>
        \A i, j \in DOMAIN sorted :
            (i < j /\ KeyEqual(sorter, sorted[i], sorted[j]))
                => InputIndex(sorted[i]) < InputIndex(sorted[j])

\* C2: for every sorter and every non-empty input, the output of Sort has the
\* length of the input and the same multiset of products (and so of IDs).
C2_Permutation ==
    (pc # "start" /\ Len(initial) > 0) =>
        /\ Len(sorted) = Len(initial)
        /\ BagOf(sorted) = BagOf(initial)
        /\ BagOf(IDs(sorted)) = BagOf(IDs(initial))

C2_Witness ==
    /\ pc = "sorted"
    /\ Len(initial) = LongLen
    /\ sorted # initial
    /\ BagOf(IDs(sorted)) = BagOf(IDs(initial))

C8_Idempotent == pc = "resorted" => resorted = sorted

\* C9: under the popularity sorter no product with ViewsCount = 0 is placed
\* before a product with ViewsCount > 0.
C9_ZeroViewsLast ==
    (pc # "start" /\ sorter = NewSalesPerViewSorter) =>
        \A i, j \in DOMAIN sorted :
            i < j => ~(sorted[i].ViewsCount = 0 /\ sorted[j].ViewsCount > 0)

\* C10: under the newest-first sorter a product whose Created does not parse
\* is never placed before a product whose Created parses, and two products
\* that do not parse compare equal.
C10_UnparseableOldest ==
    (pc # "start" /\ sorter = NewNewestFirstSorter) =>
        /\ \A i, j \in DOMAIN sorted :
               i < j => ~(Parse(sorted[i].Created).err /\ ~Parse(sorted[j].Created).err)
        /\ \A i, j \in DOMAIN sorted :
               (Parse(sorted[i].Created).err /\ Parse(sorted[j].Created).err)
                   => ~sortLogic(sorter, sorted[i], sorted[j])

----------------------------------------------------------------------------
(* Properties of the catalog, checked under Spec *)

\* C4: GetSortedProducts with a name the registry does not hold returns the
\* "sorter not found" error carrying that name and a nil slice, and leaves
\* the product collection and the registry as they were.
C4_NotFound ==
    [][(ret'.op = "GetSortedProducts" /\ ret'.name \notin DOMAIN registry) =>
           /\ ret'.err = <<"sorter '", ret'.name, "' not found">>
           /\ ret'.isNil
           /\ ret'.products = <<>>
           /\ products' = products
           /\ registry' = registry]_vars

C4_Witness ==
    /\ ret.op = "GetSortedProducts"
    /\ ret.name = UnknownName
    /\ ret.err = <<"sorter '", UnknownName, "' not found">>
    /\ registered # {}

\* C5: the product collection keeps the elements and the order it was
\* constructed with, whatever is called; the registry changes only in
\* AddSortingLogic.
C5_InputUntouched ==
    /\ [](products = initial)
    /\ [][registry' # registry => ret'.op = "AddSortingLogic"]_vars

C5_Witness ==
    /\ ret.op = "GetSortedProducts"
    /\ ~ret.isNil
    /\ ret.products # initial
    /\ products = initial

\* C6: every built-in name and every name passed to AddSortingLogic is found
\* by GetSorter, is in every list GetAvailableSorters can return, and is
\* resolved by GetSortedProducts.
C6_NamesPersist ==
    \A n \in BuiltinNames \cup {GetName(s) : s \in registered} :
        /\ GetSorter(registry, n).exists
        /\ \A names \in GetAvailableSorters(registry) : n \in Range(names)
        /\ (ret.op = "GetSortedProducts" /\ ret.name = n) => (ret.err = <<>> /\ ~ret.isNil)
        /\ ret.op = "GetAvailableSorters" => n \in Range(ret.names)

C6_Witness ==
    /\ ret.op = "GetAvailableSorters"
    /\ BY_APLHABETS \in Range(ret.names)
    /\ Len(ret.names) = 4
    /\ \E s \in registered : GetName(s) = BY_PRICE_HIGH_TO_LOW

\* C7: last write wins.  Registering under a name the registry holds replaces
\* that entry and no other, and keeps the set of names; afterwards
\* GetSortedProducts for a registered name sorts with the sorter registered
\* last under it, and every list of names holds each name once.
C7_LastWriteWins ==
    /\ [][(ret'.op = "AddSortingLogic" /\ ret'.name \in DOMAIN registry) =>
              /\ DOMAIN registry' = DOMAIN registry
              /\ registry'[ret'.name] = ret'.arg
              /\ \A n \in DOMAIN registry \ {ret'.name} : registry'[n] = registry[n]]_vars
    /\ [](\A s \in registered :
              /\ GetSorter(registry, GetName(s)).sorter = s
              /\ (ret.op = "GetSortedProducts" /\ ret.name = GetName(s))
                     => ret.products = sortSlice(s, initial, build)
              /\ \A names \in GetAvailableSorters(registry) :
                     Cardinality({i \in DOMAIN names : names[i] = GetName(s)}) = 1)

C7_Witness ==
    /\ ret.op = "GetSortedProducts"
    /\ ret.name = BY_PRICE_HIGH_TO_LOW
    /\ registry[BY_PRICE_HIGH_TO_LOW].sortLogic = "alphabetical"
    /\ DOMAIN registry = BuiltinNames
    /\ ret.products = sortSlice(registry[BY_PRICE_HIGH_TO_LOW], initial, build)
    /\ ret.products # sortSlice(NewPriceSorter, initial, build)

====
